---- MODULE Spec2Model ----
(***************************************************************************)
(* A model of package wasm (bukind/wasm): the DOM access layer written on  *)
(* top of syscall/js.  The repository holds two revisions of the same      *)
(* file: src/wasm.go, whose GetClassList returns a (value, length) pair,   *)
(* and src/unnamed/part_000, whose GetClassList returns a ClassList view.  *)
(* The variable build says which revision is compiled.                     *)
(*                                                                         *)
(* Foreign values (js.Value) are records.  A primitive is [t, n, s]: its   *)
(* js.Type, its number (or 0/1 for a boolean) and its string.  An object   *)
(* carries its host class c: "elt" (a DOM element of the host), "tokens"   *)
(* (the live DOMTokenList of an element), "event" (an Event the host       *)
(* dispatches), "plain" (any other object, with the properties the code    *)
(* reads), "cl" (a plain object standing where a class list is expected).  *)
(* A Go panic is an outcome of its own: every operator that can panic      *)
(* returns a record with a panic field.                                    *)
(***************************************************************************)
EXTENDS Integers, Sequences, FiniteSets, TLC

VARIABLES
  build,       \* which revision of the file is compiled
  classes,     \* host state: element -> its class tokens, in host order
  doc,         \* host state: the value of the global "document"
  dom,         \* host state: id -> what document.getElementById(id) yields
  holder,      \* the document the DocHolder GetDoc returned holds (undefined before)
  listeners,   \* the EventListeners constructed so far: <<[name, fn, handler]>>
  funcs,       \* host state: ids of the js.Func callables that are not released
  registered,  \* host state: element -> {<<event name, callable id>>}
  lifecycle,   \* history: listener -> "Unbound" | "Attached" | "Detached"
  crashed,     \* a panic left the Go program
  view,        \* the ClassList the caller holds: [of, clist, held]
  ret          \* the last operation: its inputs and what the caller received

vars == <<build, classes, doc, dom, holder, listeners, funcs, registered,
          lifecycle, crashed, view, ret>>

-----------------------------------------------------------------------------
(* Bounds *)

MaxListeners == 2
MaxArgs == 2

Builds == {"wasm.go", "part_000"}
Elts == {"foo"}
ClassNames == {"bar", "baz"}
Ids == {"foo", "gone", "later"}
EventNames == {"click", "input"}
Handlers == {"h1", "h2"}

-----------------------------------------------------------------------------
(* syscall/js values *)

Prim(t, n, s) == [t |-> t, n |-> n, s |-> s]
Undefined == Prim("undefined", 0, "")
Null == Prim("null", 0, "")
Bool(b) == Prim("boolean", IF b THEN 1 ELSE 0, "")
Num(n) == Prim("number", n, "")
Str(s) == Prim("string", 0, s)
Symbol == Prim("symbol", 0, "")
Function == Prim("function", 0, "")

EltRef(e) == [t |-> "object", c |-> "elt", e |-> e]
TokensRef(e) == [t |-> "object", c |-> "tokens", e |-> e]
Document == [t |-> "object", c |-> "document"]
EventObj(name, target) == [t |-> "object", c |-> "event", name |-> name, target |-> target]
ClObj(length, value) == [t |-> "object", c |-> "cl", length |-> length, value |-> value]
PlainObj(id, type, classList, target) ==
  [t |-> "object", c |-> "plain", id |-> id, type |-> type,
   classList |-> classList, target |-> target]

\* js.Value.Truthy
Truthy(v) ==
  CASE v.t \in {"undefined", "null"} -> FALSE
    [] v.t = "boolean" -> v.n = 1
    [] v.t = "number" -> v.n # 0
    [] v.t = "string" -> v.s # ""
    [] OTHER -> TRUE

\* js.Value.String: the string itself, or "<T: V>" for any other type
String(v) ==
  CASE v.t = "string" -> v.s
    [] v.t = "undefined" -> "<undefined>"
    [] v.t = "null" -> "<null>"
    [] v.t = "boolean" -> "<boolean: " \o (IF v.n = 1 THEN "true" ELSE "false") \o ">"
    [] v.t = "number" -> "<number: " \o ToString(v.n) \o ">"
    [] v.t = "symbol" -> "<symbol>"
    [] v.t = "function" -> "<function>"
    [] OTHER -> "<object>"

\* js.Value.Get panics (ValueError) unless the value is an object or a function
CanGet(v) == v.t \in {"object", "function"}

RECURSIVE Join(_)
Join(seq) ==
  IF Len(seq) = 0 THEN ""
  ELSE IF Len(seq) = 1 THEN seq[1]
  ELSE seq[1] \o " " \o Join(Tail(seq))

\* The property p of an object or function v, as the host reports it
GetProp(v, p) ==
  IF v.t = "function" THEN Undefined
  ELSE CASE v.c = "elt" ->
              (CASE p = "id" -> Str(v.e)
                 [] p = "classList" -> TokensRef(v.e)
                 [] OTHER -> Undefined)
         [] v.c = "tokens" ->
              (CASE p = "length" -> Num(Len(classes[v.e]))
                 [] p = "value" -> Str(Join(classes[v.e]))
                 [] OTHER -> Undefined)
         [] v.c = "event" ->
              (CASE p = "type" -> Str(v.name)
                 [] p = "target" -> v.target
                 [] OTHER -> Undefined)
         [] v.c = "cl" ->
              (CASE p = "length" -> v.length
                 [] p = "value" -> v.value
                 [] OTHER -> Undefined)
         [] v.c = "plain" ->
              (CASE p = "id" -> v.id
                 [] p = "type" -> v.type
                 [] p = "classList" -> v.classList
                 [] p = "target" -> v.target
                 [] OTHER -> Undefined)
         [] OTHER -> Undefined

\* Only the host's DOMTokenList has the methods contains, add and remove
HasMethods(v) == v.t = "object" /\ v.c = "tokens"

-----------------------------------------------------------------------------
(* GetClassList, ClassList and Dbg *)

Panic == [panic |-> TRUE]

\* part_000: GetClassList
GetClassList(obj) ==
  IF ~CanGet(obj) THEN Panic
  ELSE LET clist == GetProp(obj, "classList") IN
    IF clist.t = "undefined" THEN [panic |-> FALSE, clist |-> clist]
    ELSE IF ~CanGet(clist) THEN Panic
    ELSE LET len == GetProp(clist, "length") IN
      IF len.t = "number" /\ len.n > 0
      THEN [panic |-> FALSE, clist |-> clist]
      ELSE [panic |-> FALSE, clist |-> Undefined]

\* wasm.go: GetClassList
GetClassListLen(obj) ==
  IF ~CanGet(obj) THEN Panic
  ELSE LET clist == GetProp(obj, "classList") IN
    IF clist.t = "undefined" THEN [panic |-> FALSE, clist |-> clist, n |-> 0]
    ELSE IF ~CanGet(clist) THEN Panic
    ELSE LET len == GetProp(clist, "length") IN
      IF len.t = "number"
      THEN [panic |-> FALSE, clist |-> clist, n |-> len.n]
      ELSE [panic |-> FALSE, clist |-> Undefined, n |-> 0]

\* part_000: ClassList.Contains
Contains(c, s) ==
  IF c.t = "undefined" THEN [panic |-> FALSE, result |-> FALSE]
  ELSE IF ~HasMethods(c) THEN Panic
  ELSE [panic |-> FALSE, result |-> \E i \in 1..Len(classes[c.e]) : classes[c.e][i] = s]

\* part_000: ClassList.Add; the class tokens of every element afterwards
ClassListAdd(c, s) ==
  IF c.t = "undefined" THEN [panic |-> FALSE, classes |-> classes]
  ELSE IF ~HasMethods(c) THEN Panic
  ELSE [panic |-> FALSE,
        classes |-> [classes EXCEPT ![c.e] =
           IF \E i \in 1..Len(@) : @[i] = s THEN @ ELSE Append(@, s)]]

\* part_000: ClassList.Remove
ClassListRemove(c, s) ==
  IF c.t = "undefined" THEN [panic |-> FALSE, classes |-> classes]
  ELSE IF ~HasMethods(c) THEN Panic
  ELSE [panic |-> FALSE,
        classes |-> [classes EXCEPT ![c.e] = SelectSeq(@, LAMBDA x : x # s)]]

\* part_000: ClassList.String
ClassListString(c) ==
  IF c.t = "undefined" THEN [panic |-> FALSE, str |-> ""]
  ELSE IF ~CanGet(c) THEN Panic
  ELSE [panic |-> FALSE, str |-> String(GetProp(c, "value"))]

\* The " id=" and " type=" segments, the same in both revisions
IdSegment(v) ==
  LET id == GetProp(v, "id") IN
  IF id.t # "undefined" /\ String(id) # "" THEN " id=" \o String(id) ELSE ""

TypeSegment(v) ==
  LET typ == GetProp(v, "type") IN
  IF typ.t # "undefined" THEN " type=" \o String(typ) ELSE ""

\* part_000: Dbg
Dbg(v) ==
  IF v.t # "object" THEN [panic |-> FALSE, str |-> String(v)]
  ELSE LET clist == GetClassList(v) IN
    IF clist.panic THEN Panic
    ELSE LET cls == ClassListString(clist.clist) IN
      IF cls.panic THEN Panic
      ELSE [panic |-> FALSE,
            str |-> "<obj" \o IdSegment(v) \o TypeSegment(v)
                    \o (IF cls.str # "" THEN " cls=" \o cls.str ELSE "") \o ">"]

\* wasm.go: Dbg
DbgLen(v) ==
  IF v.t # "object" THEN [panic |-> FALSE, str |-> String(v)]
  ELSE LET cl == GetClassListLen(v) IN
    IF cl.panic THEN Panic
    ELSE [panic |-> FALSE,
          str |-> "<obj" \o IdSegment(v) \o TypeSegment(v)
                  \o (IF cl.n > 0 THEN " cls=" \o String(GetProp(cl.clist, "value")) ELSE "")
                  \o ">"]

\* Dbg of the revision that is compiled
DbgBuilt(v) == IF build = "wasm.go" THEN DbgLen(v) ELSE Dbg(v)

-----------------------------------------------------------------------------
(* The inputs the operations are tried on *)

TokenSeqs ==
  {<<>>} \cup {<<a>> : a \in ClassNames}
         \cup {q \in ClassNames \X ClassNames : q[1] # q[2]}

Prims == {Undefined, Null, Bool(FALSE), Bool(TRUE), Num(0), Num(5),
          Str(""), Str("x"), Symbol, Function}

\* What an object may hold where a class list is expected
ClassListVals ==
  {Undefined, Null, Str("x"), Num(1),
   ClObj(Undefined, Undefined), ClObj(Str("2"), Str("a")),
   ClObj(Num(0), Str("")), ClObj(Num(1), Str("bar")),
   ClObj(Num(2), Str("a b")), ClObj(Num(1), Str(""))}

IdVals == {Undefined, Null, Str(""), Str("foo"), Num(5)}
TypeVals == {Undefined, Null, Str("text")}

PlainObjs ==
  {PlainObj(id, typ, cl, Undefined) :
     id \in IdVals, typ \in TypeVals, cl \in ClassListVals}

DbgInputs ==
  Prims \cup PlainObjs \cup {EltRef(e) : e \in Elts} \cup {TokensRef(e) : e \in Elts}
        \cup {EventObj(n, EltRef(e)) : n \in EventNames, e \in Elts}

ClassListInputs ==
  {EltRef(e) : e \in Elts}
    \cup {PlainObj(Undefined, Undefined, cl, Undefined) : cl \in ClassListVals}
    \cup {Undefined, Str("x")}

None == [op |-> "none"]
NoView == [of |-> Undefined, clist |-> Undefined, held |-> FALSE]

-----------------------------------------------------------------------------
(* Introspection: GetClassList, the ClassList view, Dbg *)

InitInspect ==
  /\ build \in Builds
  /\ classes \in [Elts -> TokenSeqs]
  /\ doc = Document
  /\ dom = [id \in Ids |-> Null]
  /\ holder = Undefined
  /\ listeners = <<>>
  /\ funcs = {}
  /\ registered = [e \in Elts |-> {}]
  /\ lifecycle = <<>>
  /\ crashed = FALSE
  /\ view = NoView
  /\ ret = None

\* The caller formats v
CallDbg(v) ==
  /\ ~crashed
  /\ LET d == DbgBuilt(v) IN
       /\ ret' = [op |-> "Dbg", v |-> v, panic |-> d.panic,
                  str |-> IF d.panic THEN "" ELSE d.str]
       /\ crashed' = d.panic
  /\ UNCHANGED <<build, classes, doc, dom, holder, listeners, funcs, registered,
                 lifecycle, view>>

\* wasm.go: the caller asks for the class list and its length
CallGetClassListLen(v) ==
  /\ ~crashed
  /\ build = "wasm.go"
  /\ LET g == GetClassListLen(v) IN
       /\ ret' = [op |-> "GetClassListLen", v |-> v, panic |-> g.panic,
                  clist |-> IF g.panic THEN Undefined ELSE g.clist,
                  n |-> IF g.panic THEN 0 ELSE g.n]
       /\ crashed' = g.panic
  /\ UNCHANGED <<build, classes, doc, dom, holder, listeners, funcs, registered,
                 lifecycle, view>>

\* part_000: the caller obtains the ClassList view of v and holds it
CallGetClassList(v) ==
  /\ ~crashed
  /\ build = "part_000"
  /\ LET g == GetClassList(v) IN
       /\ ret' = [op |-> "GetClassList", v |-> v, panic |-> g.panic]
       /\ view' = IF g.panic THEN view
                  ELSE [of |-> v, clist |-> g.clist, held |-> TRUE]
       /\ crashed' = g.panic
  /\ UNCHANGED <<build, classes, doc, dom, holder, listeners, funcs, registered,
                 lifecycle>>

\* part_000: Contains(s) on the view held
CallContains(s) ==
  /\ ~crashed
  /\ view.held
  /\ LET r == Contains(view.clist, s) IN
       /\ ret' = [op |-> "Contains", s |-> s, panic |-> r.panic,
                  result |-> IF r.panic THEN FALSE ELSE r.result]
       /\ crashed' = r.panic
  /\ UNCHANGED <<build, classes, doc, dom, holder, listeners, funcs, registered,
                 lifecycle, view>>

\* part_000: Add(s) on the view held
CallAdd(s) ==
  /\ ~crashed
  /\ view.held
  /\ LET r == ClassListAdd(view.clist, s) IN
       /\ ret' = [op |-> "Add", s |-> s, panic |-> r.panic, before |-> classes]
       /\ classes' = IF r.panic THEN classes ELSE r.classes
       /\ crashed' = r.panic
  /\ UNCHANGED <<build, doc, dom, holder, listeners, funcs, registered,
                 lifecycle, view>>

\* part_000: Remove(s) on the view held
CallRemove(s) ==
  /\ ~crashed
  /\ view.held
  /\ LET r == ClassListRemove(view.clist, s) IN
       /\ ret' = [op |-> "Remove", s |-> s, panic |-> r.panic, before |-> classes]
       /\ classes' = IF r.panic THEN classes ELSE r.classes
       /\ crashed' = r.panic
  /\ UNCHANGED <<build, doc, dom, holder, listeners, funcs, registered,
                 lifecycle, view>>

\* part_000: String() on the view held
CallString ==
  /\ ~crashed
  /\ view.held
  /\ LET r == ClassListString(view.clist) IN
       /\ ret' = [op |-> "String", panic |-> r.panic,
                  str |-> IF r.panic THEN "" ELSE r.str]
       /\ crashed' = r.panic
  /\ UNCHANGED <<build, classes, doc, dom, holder, listeners, funcs, registered,
                 lifecycle, view>>

NextDbg ==
  \/ \E v \in DbgInputs : CallDbg(v)
  \/ \E v \in ClassListInputs : CallGetClassListLen(v)

SpecDbg == InitInspect /\ [][NextDbg]_vars

NextClassList ==
  \/ \E v \in ClassListInputs : CallGetClassList(v)
  \/ \E s \in ClassNames : CallContains(s)
  \/ \E s \in ClassNames : CallAdd(s)
  \/ \E s \in ClassNames : CallRemove(s)
  \/ CallString

SpecClassList == InitInspect /\ [][NextClassList]_vars

-----------------------------------------------------------------------------
(* DocHolder *)

NilError == [nil |-> TRUE, msg |-> ""]
Error(msg) == [nil |-> FALSE, msg |-> msg]

\* fmt's %q of a string without characters to escape
Quote(str) == "\"" \o str \o "\""

\* What document.getElementById(id) may yield
LookupVals(id) == {Null, Undefined, Str(""), EltRef(id)}

DocVals == {Document, Undefined, Null}

InitDoc ==
  /\ build \in Builds
  /\ classes = [e \in Elts |-> <<>>]
  /\ doc \in DocVals
  /\ dom \in {f \in [Ids -> UNION {LookupVals(id) : id \in Ids}] :
                \A id \in Ids : f[id] \in LookupVals(id)}
  /\ holder = Undefined
  /\ listeners = <<>>
  /\ funcs = {}
  /\ registered = [e \in Elts |-> {}]
  /\ lifecycle = <<>>
  /\ crashed = FALSE
  /\ view = NoView
  /\ ret = None

\* GetDoc
GetDoc ==
  /\ ~crashed
  /\ IF ~Truthy(doc)
     THEN /\ ret' = [op |-> "GetDoc", err |-> Error("cannot get document")]
          /\ UNCHANGED holder
     ELSE /\ ret' = [op |-> "GetDoc", err |-> NilError]
          /\ holder' = doc
  /\ UNCHANGED <<build, classes, doc, dom, listeners, funcs, registered,
                 lifecycle, crashed, view>>

\* GetElementByID without the test of what the lookup yielded
GetElementByIDUnchecked(id) == [value |-> dom[id], err |-> NilError]

\* DocHolder.GetElementByID: the value and the error it returns
GetElementByID(id) ==
  LET elt == dom[id] IN
  IF ~Truthy(elt)
  THEN [value |-> Undefined, err |-> Error("cannot find elt with id " \o Quote(id))]
  ELSE [value |-> elt, err |-> NilError]

CallGetElementByID(id) ==
  /\ ~crashed
  /\ Truthy(holder)
  /\ LET r == GetElementByID(id) IN
       ret' = [op |-> "GetElementByID", id |-> id, value |-> r.value, err |-> r.err]
  /\ UNCHANGED <<build, classes, doc, dom, holder, listeners, funcs, registered,
                 lifecycle, crashed, view>>

\* DocHolder.CreateElement: the host makes a new element of that tag
CreateElement(typ) ==
  /\ ~crashed
  /\ Truthy(holder)
  /\ ret' = [op |-> "CreateElement", value |-> [t |-> "object", c |-> "created", tag |-> typ]]
  /\ UNCHANGED <<build, classes, doc, dom, holder, listeners, funcs, registered,
                 lifecycle, crashed, view>>

Tags == {"div", "no-such-tag"}

NextDoc ==
  \/ GetDoc
  \/ \E id \in Ids : CallGetElementByID(id)
  \/ \E typ \in Tags : CreateElement(typ)

SpecDoc == InitDoc /\ [][NextDoc]_vars

-----------------------------------------------------------------------------
(* EventListener *)

\* A Go nil, and what the caller of a callable that panicked receives
Nil == Prim("nil", 0, "")
Thrown == Prim("panic", 0, "")

\* What the handler h returns
HandlerResult(h) == Str(h)

\* js.FuncOf: the id of the callable it makes, the n-th made being n
\* A callable shared by every listener instead of one made for each
FuncOfShared(n) == 1

FuncOf(n) == n + 1

\* The body of the callable NewEventListener builds for listener l, on one
\* native invocation: whether it panicked, the calls of fn it made, its result
Wrapper(l, this, args) ==
  LET inert == [panic |-> FALSE, called |-> <<>>, result |-> Nil]
      thrown == [panic |-> TRUE, called |-> <<>>, result |-> Thrown]
  IN IF ~Truthy(this) THEN inert
     ELSE IF Len(args) # 1 THEN inert
     ELSE IF ~Truthy(args[1]) THEN inert
     ELSE IF DbgBuilt(this).panic THEN thrown
     ELSE IF DbgBuilt(args[1]).panic THEN thrown
     ELSE IF ~CanGet(args[1]) THEN thrown
     ELSE IF DbgBuilt(GetProp(args[1], "target")).panic THEN thrown
     ELSE [panic |-> FALSE,
           called |-> <<[handler |-> listeners[l].handler, this |-> this,
                         event |-> args[1]]>>,
           result |-> HandlerResult(listeners[l].handler)]

\* The method call EventListener.Add makes on its target, and Remove's
AddCall(l) == <<"addEventListener", listeners[l].name, listeners[l].fn>>

\* Remove passing a callable of its own making instead of the listener's
RemoveCallOtherFunc(l) == <<"removeEventListener", listeners[l].name, 0>>

RemoveCall(l) == <<"removeEventListener", listeners[l].name, listeners[l].fn>>

\* The host's addEventListener and removeEventListener: a registration is the
\* pair of the event name and the callable, kept once
HostCall(regs, call) ==
  IF call[1] = "addEventListener" THEN regs \cup {<<call[2], call[3]>>}
  ELSE regs \ {<<call[2], call[3]>>}

\* js.Value.Call panics unless the value is an object that has the method
CanCall(v) == v.t = "object" /\ v.c = "elt"

Key(l) == <<listeners[l].name, listeners[l].fn>>

Init ==
  /\ build \in Builds
  /\ classes = [e \in Elts |-> <<"bar">>]
  /\ doc = Document
  /\ dom = [id \in Ids |-> Null]
  /\ holder = Undefined
  /\ listeners = <<>>
  /\ funcs = {}
  /\ registered = [e \in Elts |-> {}]
  /\ lifecycle = <<>>
  /\ crashed = FALSE
  /\ view = NoView
  /\ ret = None

NewEventListener(evt, fn) ==
  /\ ~crashed
  /\ Len(listeners) < MaxListeners
  /\ LET id == FuncOf(Len(listeners)) IN
       /\ listeners' = Append(listeners, [name |-> evt, fn |-> id, handler |-> fn])
       /\ funcs' = funcs \cup {id}
  /\ lifecycle' = Append(lifecycle, "Unbound")
  /\ ret' = [op |-> "NewEventListener", l |-> Len(listeners) + 1]
  /\ UNCHANGED <<build, classes, doc, dom, holder, registered, crashed, view>>

\* EventListener.Add
Add(l, elt) ==
  /\ ~crashed
  /\ IF DbgBuilt(elt).panic \/ ~CanCall(elt)
     THEN /\ crashed' = TRUE
          /\ ret' = [op |-> "Add", l |-> l, elt |-> elt, panic |-> TRUE]
          /\ UNCHANGED <<registered, lifecycle>>
     ELSE /\ registered' = [registered EXCEPT ![elt.e] = HostCall(@, AddCall(l))]
          /\ lifecycle' = [lifecycle EXCEPT ![l] = "Attached"]
          /\ ret' = [op |-> "Add", l |-> l, elt |-> elt, panic |-> FALSE]
          /\ UNCHANGED crashed
  /\ UNCHANGED <<build, classes, doc, dom, holder, listeners, funcs, view>>

\* EventListener.Remove
Remove(l, elt) ==
  /\ ~crashed
  /\ IF DbgBuilt(elt).panic \/ ~CanCall(elt)
     THEN /\ crashed' = TRUE
          /\ ret' = [op |-> "Remove", l |-> l, elt |-> elt, panic |-> TRUE]
          /\ UNCHANGED <<registered, lifecycle>>
     ELSE /\ registered' = [registered EXCEPT ![elt.e] = HostCall(@, RemoveCall(l))]
          /\ lifecycle' = [lifecycle EXCEPT ![l] =
                             IF \E e \in Elts : Key(l) \in registered'[e]
                             THEN @
                             ELSE IF @ = "Attached" THEN "Detached" ELSE @]
          /\ ret' = [op |-> "Remove", l |-> l, elt |-> elt, panic |-> FALSE]
          /\ UNCHANGED crashed
  /\ UNCHANGED <<build, classes, doc, dom, holder, listeners, funcs, view>>

\* The host dispatches the event name on element e: it invokes, with e as the
\* subject and the event as the one argument, every callable registered on e
\* for that name
Dispatch(e, name) ==
  /\ ~crashed
  /\ LET hit == {l \in 1..Len(listeners) :
                   listeners[l].name = name /\ Key(l) \in registered[e]}
         out == [l \in hit |-> Wrapper(l, EltRef(e), <<EventObj(name, EltRef(e))>>)]
     IN /\ ret' = [op |-> "Dispatch", e |-> e, name |-> name,
                   invoked |-> {l \in hit : Len(out[l].called) = 1},
                   panic |-> \E l \in hit : out[l].panic]
        /\ crashed' = \E l \in hit : out[l].panic
  /\ UNCHANGED <<build, classes, doc, dom, holder, listeners, funcs, registered,
                 lifecycle, view>>

Targets == {EltRef(e) : e \in Elts} \cup {Undefined}

Next ==
  \/ \E evt \in EventNames, fn \in Handlers : NewEventListener(evt, fn)
  \/ \E l \in 1..Len(listeners), elt \in Targets : Add(l, elt)
  \/ \E l \in 1..Len(listeners), elt \in Targets : Remove(l, elt)
  \/ \E e \in Elts, name \in EventNames : Dispatch(e, name)

Spec == Init /\ [][Next]_vars

-----------------------------------------------------------------------------
(* Native invocations of a listener's callable, by any code of the host *)

ThisVals == {Undefined, Str("x"), EltRef("foo")}

ArgVals ==
  {Undefined, Num(5), EventObj("click", EltRef("foo")),
   PlainObj(Undefined, Undefined, Null, Undefined),
   PlainObj(Undefined, Undefined, Undefined, PlainObj(Undefined, Undefined, Null, Undefined))}

RECURSIVE ArgLists(_)
ArgLists(n) ==
  IF n = 0 THEN {<<>>}
  ELSE ArgLists(n - 1) \cup
       {Append(a, v) : a \in {b \in ArgLists(n - 1) : Len(b) = n - 1}, v \in ArgVals}

Invoke(l, this, args) ==
  /\ ~crashed
  /\ LET w == Wrapper(l, this, args) IN
       /\ ret' = [op |-> "Invoke", l |-> l, this |-> this, args |-> args,
                  panic |-> w.panic, called |-> w.called, result |-> w.result]
       /\ crashed' = w.panic
  /\ UNCHANGED <<build, classes, doc, dom, holder, listeners, funcs, registered,
                 lifecycle, view>>

NextInvoke ==
  \/ \E evt \in EventNames, fn \in Handlers : NewEventListener(evt, fn)
  \/ \E l \in 1..Len(listeners), this \in ThisVals, args \in ArgLists(MaxArgs) :
       Invoke(l, this, args)

SpecInvoke == Init /\ [][NextInvoke]_vars

-----------------------------------------------------------------------------
(* Claims *)

Listeners == 1..Len(listeners)

\* C1: on every native invocation of a listener's callable, fn is called if
\* and only if the subject is truthy, exactly one argument was supplied and
\* that argument is truthy; it is then called exactly once with
\* (subject, event) and its result is what the native caller receives;
\* otherwise fn is not called and the caller receives the inert nil.
C1_HandlerCalledIff ==
  ret.op = "Invoke" =>
    IF Truthy(ret.this) /\ Len(ret.args) = 1 /\ Truthy(ret.args[1])
    THEN /\ ret.called = <<[handler |-> listeners[ret.l].handler,
                            this |-> ret.this, event |-> ret.args[1]]>>
         /\ ret.result = HandlerResult(listeners[ret.l].handler)
    ELSE /\ ret.called = <<>>
         /\ ret.result = Nil

\* C4: no native invocation of a listener's callable, whatever its subject
\* and arguments, panics into the host: it returns the inert result or the
\* handler's result.
C4_NoPanicEscapes ==
  ret.op = "Invoke" =>
    /\ ~ret.panic
    /\ ~crashed
    /\ ret.result \in {Nil, HandlerResult(listeners[ret.l].handler)}

\* C2: Add(elt) followed immediately by Remove(elt) with the same listener
\* leaves elt without a registration of that listener's callable, and a
\* dispatch on a target that holds no registration of a listener does not
\* invoke that listener's handler.
C2_AttachDetachRoundTrip ==
  /\ [][(/\ ret.op = "Add" /\ ~ret.panic
         /\ ret'.op = "Remove" /\ ~ret'.panic
         /\ ret'.l = ret.l /\ ret'.elt = ret.elt)
        => Key(ret.l) \notin registered'[ret.elt.e]]_vars
  /\ [][ret'.op = "Dispatch"
        => \A l \in Listeners :
             Key(l) \notin registered[ret'.e] => l \notin ret'.invoked]_vars

\* C2's case: a listener was attached and detached, and its event was then
\* dispatched on the target without its handler being invoked.
C2_Witness ==
  /\ ret.op = "Dispatch"
  /\ \E l \in Listeners :
       /\ lifecycle[l] = "Detached"
       /\ listeners[l].name = ret.name
       /\ Key(l) \notin registered[ret.e]
       /\ l \notin ret.invoked

\* C3: every listener holds one callable of its own, made at construction and
\* never replaced, and passes it to addEventListener and to
\* removeEventListener alike; Remove on another listener, even one of the
\* same event name and handler, leaves the registrations of this one in
\* place, and a dispatch invokes the handler of every listener registered
\* for the event.
C3_ListenerIdentity ==
  /\ [](\A l1 \in Listeners, l2 \in Listeners :
          l1 # l2 => listeners[l1].fn # listeners[l2].fn)
  /\ [](\A l \in Listeners :
          AddCall(l)[3] = listeners[l].fn /\ RemoveCall(l)[3] = listeners[l].fn)
  /\ [][\A l \in Listeners : listeners'[l] = listeners[l]]_vars
  /\ [][(ret'.op = "Remove" /\ ~ret'.panic)
        => \A l \in Listeners \ {ret'.l}, e \in Elts :
             Key(l) \in registered[e] => Key(l) \in registered'[e]]_vars
  /\ [][ret'.op = "Dispatch"
        => \A l \in Listeners :
             (listeners[l].name = ret'.name /\ Key(l) \in registered[ret'.e])
               => l \in ret'.invoked]_vars

\* C3's case: Remove has run on a listener while another listener of the
\* same event name and handler stays registered on that target.
C3_Witness ==
  /\ ret.op = "Remove"
  /\ ~ret.panic
  /\ \E l \in Listeners \ {ret.l} :
       /\ listeners[l].name = listeners[ret.l].name
       /\ listeners[l].handler = listeners[ret.l].handler
       /\ Key(l) \in registered[ret.elt.e]

\* C5: GetElementByID(id) returns a non-nil error whose message carries id
\* when the document's lookup yields a falsy value, never a falsy value
\* with a nil error, and the element with a nil error when the lookup
\* yields a truthy one.
C5_NotFoundIsAnError ==
  ret.op = "GetElementByID" =>
    /\ ~(ret.err.nil /\ ~Truthy(ret.value))
    /\ IF Truthy(dom[ret.id])
       THEN ret.value = dom[ret.id] /\ ret.err.nil
       ELSE /\ ~ret.err.nil
            /\ ret.err.msg = "cannot find elt with id \"" \o ret.id \o "\""

\* C5's case: an identifier whose lookup is falsy was asked for.
C5_Witness ==
  /\ ret.op = "GetElementByID"
  /\ ~Truthy(dom[ret.id])
  /\ ~ret.err.nil

\* An object of the host that has no class list: here, every object that
\* is not an element
NoClassList(v) == v.t = "object" /\ v.c = "plain"

\* C6: for every element without a class list (classList undefined, null or
\* any value that is no class list), GetClassList yields the unavailable
\* view, on which Contains is false, String is "", and Add and Remove do not
\* panic and change nothing.
C6_UnavailableView ==
  /\ (ret.op = "GetClassList" /\ NoClassList(ret.v))
       => ~ret.panic /\ view.of = ret.v /\ view.clist = Undefined
  /\ (ret.op \in {"Contains", "Add", "Remove", "String"} /\ NoClassList(view.of))
       => /\ ~ret.panic
          /\ ret.op = "Contains" => ret.result = FALSE
          /\ ret.op = "String" => ret.str = ""
          /\ ret.op \in {"Add", "Remove"} => classes = ret.before

Tokens(seq) == {seq[i] : i \in 1..Len(seq)}

\* C7: for every element's class list, an empty one included, Add(x) on the
\* view GetClassList gave leaves Contains(x) true, and an Add(x) of a name
\* already contained changes the containment of no name.
C7_AddIdempotent ==
  (ret.op = "Add" /\ view.of.t = "object" /\ view.of.c = "elt") =>
    /\ ~ret.panic
    /\ Contains(view.clist, ret.s).result
    /\ ret.s \in Tokens(classes[view.of.e])
    /\ \A y \in ClassNames \ {ret.s} :
         y \in Tokens(classes[view.of.e]) <=> y \in Tokens(ret.before[view.of.e])

\* The class list of v as C8 reads it: available when the classList of v is
\* an element's token list or an object that reports a positive length
ClassesOf(v) ==
  LET cl == GetProp(v, "classList") IN
  IF cl.t = "object" /\ GetProp(cl, "length").t = "number"
     /\ GetProp(cl, "length").n > 0 /\ GetProp(cl, "value").t = "string"
  THEN GetProp(cl, "value").s
  ELSE ""

\* The text C8 states for v
Described(v) ==
  IF v.t # "object" THEN String(v)
  ELSE "<obj"
       \o (IF GetProp(v, "id").t # "undefined" /\ String(GetProp(v, "id")) # ""
           THEN " id=" \o String(GetProp(v, "id")) ELSE "")
       \o (IF GetProp(v, "type").t # "undefined"
           THEN " type=" \o String(GetProp(v, "type")) ELSE "")
       \o (IF ClassesOf(v) # "" THEN " cls=" \o ClassesOf(v) ELSE "")
       \o ">"

\* C8: in both revisions Dbg(v) of an object is "<obj", then " id=<id>" when
\* v has a non-empty id, " type=<type>" when v has a type, " cls=<classes>"
\* when its class list is available and non-empty, then ">"; Dbg(v) of any
\* other value is its own text.
C8_DbgFormat ==
  ret.op = "Dbg" => ~ret.panic /\ ret.str = Described(ret.v)

\* C9: Dbg(v) returns a string, without a panic, for every value v and every
\* shape of its id, type and classList.
C9_DbgNeverPanics ==
  ret.op = "Dbg" => ~ret.panic /\ ~crashed

\* C10: the callable of a listener that has been detached is released, so the
\* callables the host holds do not grow with the listeners created.
C10_DetachedReleased ==
  /\ \A l \in Listeners : lifecycle[l] = "Detached" => listeners[l].fn \notin funcs
  /\ Cardinality(funcs) <= Cardinality({l \in Listeners : lifecycle[l] # "Detached"})

====
